---- MODULE Spec2Model ----
(***************************************************************************)
(* Model of the interflop "checkdenormal" backend                          *)
(* (src/interflop_checkdenormal.cxx).                                      *)
(*                                                                         *)
(* Floating-point values are IEEE-754 binary32 / binary64 values, written  *)
(* as exact dyadic numbers  (-1)^s * m * 2^e  with m odd (or m = 0), plus  *)
(* the infinities and NaN.  Arithmetic is computed exactly on the dyadic   *)
(* numbers and then rounded once to the destination format (round to       *)
(* nearest, ties to even), which is what the hardware operators and the    *)
(* fused multiply-add primitive do in the default rounding mode.           *)
(***************************************************************************)
EXTENDS Integers, Sequences, FiniteSets, TLC

VARIABLES
    doop,       \* build flag IFCD_DOOP: TRUE = the interceptors do the arithmetic
    host,       \* the primitives the host process has registered
    phase,      \* where the session is in the backend's lifecycle
    ctx,        \* the checkdenormal_context_t of the session (<<>> before pre_init)
    table,      \* the interflop_backend_interface_t returned by init
    res,        \* the caller's result slot handed to the last interceptor call
    recording,  \* what the auxiliary variables below record of the session
    last,       \* the last interceptor call and what it did
    cfgHist,    \* the configuration calls made so far, in program order
    panicMsg    \* what was handed to interflop_panic (NoPanic when nothing)

vars == <<doop, host, phase, ctx, table, res, recording, last, cfgHist,
          panicMsg>>

(***************************************************************************)
(* Bounds of the model                                                     *)
(***************************************************************************)
\* configuration calls (configure / cli) recorded in one session
MaxCfg == 2

(***************************************************************************)
(* Natural numbers of any size, as sequences of bits, least significant    *)
(* bit first, without leading zero bits (zero is the empty sequence).  The *)
(* significand of a 64-bit value has 53 bits and the exact product of two  *)
(* of them 106.                                                            *)
(***************************************************************************)
Min2(a, b) == IF a < b THEN a ELSE b
Max2(a, b) == IF a > b THEN a ELSE b

\* b without its leading (most significant) zero bits
BNorm(b) ==
    LET ones == {i \in 1..Len(b) : b[i] = 1}
    IN  IF ones = {} THEN <<>>
        ELSE SubSeq(b, 1, CHOOSE i \in ones : \A j \in ones : j <= i)

RECURSIVE BFromNat(_)
BFromNat(n) == IF n = 0 THEN <<>> ELSE <<n % 2>> \o BFromNat(n \div 2)

BBit(b, i) == IF i <= Len(b) THEN b[i] ELSE 0

BZeros(n) == [i \in 1..n |-> 0]

\* b * 2^n
BShl(b, n) == IF b = <<>> THEN <<>> ELSE BZeros(n) \o b
\* b \div 2^n
BShr(b, n) == IF n >= Len(b) THEN <<>> ELSE SubSeq(b, n + 1, Len(b))

\* bits lo..hi of a + b + c, and the carry out of bit hi
RECURSIVE BAddC(_, _, _, _, _)
BAddC(a, b, lo, hi, c) ==
    IF lo = hi
    THEN LET t == BBit(a, lo) + BBit(b, lo) + c IN <<(<<t % 2>>), t \div 2>>
    ELSE LET mid == (lo + hi) \div 2
             low == BAddC(a, b, lo, mid, c)
             high == BAddC(a, b, mid + 1, hi, low[2])
         IN  <<low[1] \o high[1], high[2]>>

BAdd(a, b) ==
    LET n == Max2(Len(a), Len(b))
    IN  IF n = 0 THEN <<>>
        ELSE LET r == BAddC(a, b, 1, n, 0) IN BNorm(r[1] \o <<r[2]>>)

\* bits lo..hi of a - b - c, and the borrow out of bit hi
RECURSIVE BSubC(_, _, _, _, _)
BSubC(a, b, lo, hi, c) ==
    IF lo = hi
    THEN LET t == BBit(a, lo) - BBit(b, lo) - c
         IN  <<(<<t % 2>>), IF t < 0 THEN 1 ELSE 0>>
    ELSE LET mid == (lo + hi) \div 2
             low == BSubC(a, b, lo, mid, c)
             high == BSubC(a, b, mid + 1, hi, low[2])
         IN  <<low[1] \o high[1], high[2]>>

\* a - b, for a >= b
BSub(a, b) == IF a = <<>> THEN <<>> ELSE BNorm(BSubC(a, b, 1, Len(a), 0)[1])

\* a < b
BLess(a, b) ==
    IF Len(a) # Len(b) THEN Len(a) < Len(b)
    ELSE LET diff == {i \in 1..Len(a) : a[i] # b[i]}
         IN  diff # {} /\ LET i == CHOOSE i \in diff : \A j \in diff : j <= i
                          IN  a[i] < b[i]

\* sum of b * 2^(i-1) over the bits i in lo..hi of a that are set
RECURSIVE BMulRange(_, _, _, _)
BMulRange(a, b, lo, hi) ==
    IF lo = hi THEN (IF a[lo] = 1 THEN BShl(b, lo - 1) ELSE <<>>)
    ELSE LET mid == (lo + hi) \div 2
         IN  BAdd(BMulRange(a, b, lo, mid), BMulRange(a, b, mid + 1, hi))

BMul(a, b) ==
    IF a = <<>> \/ b = <<>> THEN <<>> ELSE BMulRange(a, b, 1, Len(a))

\* long division of a by b # 0 over bits hi down to lo of a, entered with
\* the remainder r of the bits above hi: <<quotient bits hi..lo (most
\* significant first), remainder>>
RECURSIVE BDivRange(_, _, _, _, _)
BDivRange(a, b, lo, hi, r) ==
    IF lo = hi
    THEN LET r2 == BNorm(<<a[lo]>> \o r)
         IN  IF BLess(r2, b) THEN <<(<<0>>), r2>> ELSE <<(<<1>>), BSub(r2, b)>>
    ELSE LET mid == (lo + hi) \div 2
             high == BDivRange(a, b, mid + 1, hi, r)
             low == BDivRange(a, b, lo, mid, high[2])
         IN  <<high[1] \o low[1], low[2]>>

BReverse(b) == [i \in 1..Len(b) |-> b[Len(b) + 1 - i]]

\* <<a \div b, a % b>>
BDivMod(a, b) ==
    IF a = <<>> THEN <<(<<>>), (<<>>)>>
    ELSE LET d == BDivRange(a, b, 1, Len(a), <<>>)
         IN  <<BNorm(BReverse(d[1])), d[2]>>

BAny(b, n) == \E i \in 1..Min2(n, Len(b)) : b[i] = 1

(***************************************************************************)
(* IEEE-754 formats: precision p, exponent range emin..emax                *)
(***************************************************************************)
FloatFmt == [p |-> 24, emin |-> -126, emax |-> 127]
DoubleFmt == [p |-> 53, emin |-> -1022, emax |-> 1023]

Fmt(width) == IF width = 32 THEN FloatFmt ELSE DoubleFmt

\* the finite value (-1)^s * m * 2^e, m a bit sequence, made odd
Canon(s, m, e) ==
    LET ones == {i \in 1..Len(m) : m[i] = 1}
    IN  IF ones = {} THEN [k |-> "num", s |-> s, m |-> <<>>, e |-> 0]
        ELSE LET z == (CHOOSE i \in ones : \A j \in ones : i <= j) - 1
             IN  [k |-> "num", s |-> s, m |-> BShr(m, z), e |-> e + z]

Num(s, n, e) == Canon(s, BFromNat(n), e)
Zero(s) == [k |-> "num", s |-> s, m |-> <<>>, e |-> 0]
Inf(s) == [k |-> "inf", s |-> s, m |-> <<>>, e |-> 0]
NaN == [k |-> "nan", s |-> 0, m |-> <<>>, e |-> 0]

IsZero(x) == x.k = "num" /\ x.m = <<>>
Xor(a, b) == IF a = b THEN 0 ELSE 1

\* Round the exact value (-1)^s * (m * 2^e + t), 0 < t < 2^e iff sticky, to
\* the format: round to nearest, ties to even, gradual underflow, overflow
\* to infinity.
RoundTo(s, m, e, sticky, fmt) ==
    IF m = <<>> THEN Zero(s)
    ELSE
      LET L == Len(m)
          q == Max2(L + e - fmt.p, fmt.emin - fmt.p + 1)
          shift == q - e
      IN  IF shift <= 0
          THEN IF L + e - 1 > fmt.emax THEN Inf(s) ELSE Canon(s, m, e)
          ELSE IF shift > L THEN Zero(s)
          ELSE
            LET fl == BShr(m, shift)
                guard == m[shift]
                below == sticky \/ BAny(m, shift - 1)
                up == guard = 1 /\ (below \/ BBit(fl, 1) = 1)
                r == IF up THEN BAdd(fl, <<1>>) ELSE fl
            IN  IF r # <<>> /\ Len(r) + q - 1 > fmt.emax THEN Inf(s)
                ELSE Canon(s, r, q)

\* big + small rounded once, for non-zero finite values with |big| >= |small|.
\* When small lies wholly below the bits that decide the rounding of big
\* (big extended to p + 2 bits), it only acts as a sticky bit.
SumOrdered(bs, bm, be, ss, sm, se, fmt) ==
    LET k == Max2(2, fmt.p + 2 - Len(bm))
    IN  IF Len(sm) + se < be - k
        THEN LET wide == BShl(bm, k)
             IN  IF bs = ss THEN RoundTo(bs, wide, be - k, TRUE, fmt)
                 ELSE RoundTo(bs, BSub(wide, <<1>>), be - k, TRUE, fmt)
        ELSE LET e0 == Min2(be, se)
                 ab == BShl(bm, be - e0)
                 as == BShl(sm, se - e0)
             IN  IF bs = ss THEN RoundTo(bs, BAdd(ab, as), e0, FALSE, fmt)
                 ELSE IF ab = as THEN Zero(0)
                 ELSE RoundTo(bs, BSub(ab, as), e0, FALSE, fmt)

\* |x| < |y| for non-zero finite values m * 2^e
MagLess(xm, xe, ym, ye) ==
    IF Len(xm) + xe # Len(ym) + ye THEN Len(xm) + xe < Len(ym) + ye
    ELSE LET e0 == Min2(xe, ye)
         IN  BLess(BShl(xm, xe - e0), BShl(ym, ye - e0))

\* exact sum of two non-zero finite values, rounded once
SumRound(xs, xm, xe, ys, ym, ye, fmt) ==
    IF MagLess(xm, xe, ym, ye)
    THEN SumOrdered(ys, ym, ye, xs, xm, xe, fmt)
    ELSE SumOrdered(xs, xm, xe, ys, ym, ye, fmt)

\* a + b
FAdd(x, y, fmt) ==
    IF x.k = "nan" \/ y.k = "nan" THEN NaN
    ELSE IF x.k = "inf" /\ y.k = "inf" THEN (IF x.s = y.s THEN x ELSE NaN)
    ELSE IF x.k = "inf" THEN x
    ELSE IF y.k = "inf" THEN y
    ELSE IF IsZero(x) /\ IsZero(y) THEN Zero(IF x.s = 1 /\ y.s = 1 THEN 1 ELSE 0)
    ELSE IF IsZero(x) THEN y
    ELSE IF IsZero(y) THEN x
    ELSE SumRound(x.s, x.m, x.e, y.s, y.m, y.e, fmt)

FNeg(x) == IF x.k = "nan" THEN NaN ELSE [x EXCEPT !.s = 1 - x.s]

\* a - b
FSub(x, y, fmt) == FAdd(x, FNeg(y), fmt)

\* a * b
FMul(x, y, fmt) ==
    IF x.k = "nan" \/ y.k = "nan" THEN NaN
    ELSE IF x.k = "inf" \/ y.k = "inf"
         THEN (IF IsZero(x) \/ IsZero(y) THEN NaN ELSE Inf(Xor(x.s, y.s)))
    ELSE RoundTo(Xor(x.s, y.s), BMul(x.m, y.m), x.e + y.e, FALSE, fmt)

\* a / b : p + 2 quotient bits and a sticky bit, rounded once
FDiv(x, y, fmt) ==
    IF x.k = "nan" \/ y.k = "nan" THEN NaN
    ELSE IF x.k = "inf" THEN (IF y.k = "inf" THEN NaN ELSE Inf(Xor(x.s, y.s)))
    ELSE IF y.k = "inf" THEN Zero(Xor(x.s, y.s))
    ELSE IF IsZero(y) THEN (IF IsZero(x) THEN NaN ELSE Inf(Xor(x.s, y.s)))
    ELSE IF IsZero(x) THEN Zero(Xor(x.s, y.s))
    ELSE
      LET k == Max2(0, fmt.p + 2 + Len(y.m) - Len(x.m))
          d == BDivMod(BShl(x.m, k), y.m)
      IN  RoundTo(Xor(x.s, y.s), d[1], x.e - y.e - k, d[2] # <<>>, fmt)

\* fused a * b + c : exact product, exact sum, one rounding
FFma(x, y, z, fmt) ==
    IF x.k = "nan" \/ y.k = "nan" \/ z.k = "nan" THEN NaN
    ELSE IF x.k = "inf" \/ y.k = "inf"
         THEN (IF IsZero(x) \/ IsZero(y) THEN NaN
               ELSE IF z.k = "inf" /\ z.s # Xor(x.s, y.s) THEN NaN
               ELSE Inf(Xor(x.s, y.s)))
    ELSE IF z.k = "inf" THEN z
    ELSE
      LET ps == Xor(x.s, y.s)
          pm == BMul(x.m, y.m)
      IN  IF pm = <<>> /\ IsZero(z) THEN Zero(IF ps = 1 /\ z.s = 1 THEN 1 ELSE 0)
          ELSE IF pm = <<>> THEN z
          ELSE IF IsZero(z) THEN RoundTo(ps, pm, x.e + y.e, FALSE, fmt)
          ELSE SumRound(ps, pm, x.e + y.e, z.s, z.m, z.e, fmt)

\* (float)a : conversion of a 64-bit value to the 32-bit format
FCast(x, fmt) ==
    IF x.k # "num" THEN x ELSE RoundTo(x.s, x.m, x.e, FALSE, fmt)

\* std::abs
FAbs(x) == IF x.k = "nan" THEN NaN ELSE [x EXCEPT !.s = 0]

\* x < y on non-negative operands (any comparison with NaN is false)
FLess(x, y) ==
    IF x.k = "nan" \/ y.k = "nan" THEN FALSE
    ELSE IF x.k = "inf" THEN FALSE
    ELSE IF y.k = "inf" THEN TRUE
    ELSE IF IsZero(y) THEN FALSE
    ELSE IF IsZero(x) THEN TRUE
    ELSE MagLess(x.m, x.e, y.m, y.e)

\* x != 0. (true for NaN, false for both zeros)
FNotZero(x) == ~IsZero(x)

\* std::numeric_limits<REAL>::min(): the smallest positive normal value
NumericLimitsMin(fmt) == [k |-> "num", s |-> 0, m |-> <<1>>, e |-> fmt.emin]

(***************************************************************************)
(* Denormal detection and flush-to-zero                                    *)
(***************************************************************************)
\* the condition of flushToZeroAndCheck, instantiated for REAL = fmt
DetectorNoZeroTest(r, fmt) == FLess(FAbs(r), NumericLimitsMin(fmt))

DetectorAtMost(r, fmt) ==
    /\ r.k # "nan"
    /\ ~FLess(NumericLimitsMin(fmt), FAbs(r))
    /\ FNotZero(r)

Detector(r, fmt) ==
    FLess(FAbs(r), NumericLimitsMin(fmt)) /\ FNotZero(r)

\* interflop_denormalHandler != Null
HandlerRegistered == "denormalHandler" \in host

\* flushToZeroAndCheck(res, ctx): the new content of *res, whether the
\* condition held, and the content of *res at each handler invocation
FlushAlways(r, c, fmt) ==
    IF Detector(r, fmt)
    THEN [res |-> Zero(0), fired |-> TRUE,
          saw |-> IF HandlerRegistered THEN <<r>> ELSE <<>>]
    ELSE [res |-> r, fired |-> FALSE, saw |-> <<>>]

HandlerAfterZeroing(r, c, fmt) ==
    IF Detector(r, fmt)
    THEN [res |-> IF c.flushtozero THEN Zero(0) ELSE r,
          fired |-> TRUE,
          saw |-> IF HandlerRegistered
                  THEN <<IF c.flushtozero THEN Zero(0) ELSE r>> ELSE <<>>]
    ELSE [res |-> r, fired |-> FALSE, saw |-> <<>>]

FlushToZeroAndCheck(r, c, fmt) ==
    IF Detector(r, fmt)
    THEN [res |-> IF c.flushtozero THEN Zero(0) ELSE r,
          fired |-> TRUE,
          saw |-> IF HandlerRegistered THEN <<r>> ELSE <<>>]
    ELSE [res |-> r, fired |-> FALSE, saw |-> <<>>]

\* _set_checkdenormal_ftz
ToggleCheckdenormalFtz(ftz, c) == [c EXCEPT !.flushtozero = ~c.flushtozero]

SetCheckdenormalFtz(ftz, c) == [c EXCEPT !.flushtozero = ftz]

(***************************************************************************)
(* Values the host hands to the interceptors                               *)
(***************************************************************************)
Widths == {32, 64}
BinOps == {"add", "sub", "mul", "div"}

BOnes(n) == [i \in 1..n |-> 1]

\* FLT_MIN, the value one step below it and the one one step above it
FltMin == Num(0, 1, -126)
FltBelowMin == Canon(0, BOnes(23), -149)
FltAboveMin == Canon(0, <<1>> \o BZeros(22) \o <<1>>, -149)
\* DBL_MIN, the value one step below it and the one one step above it
DblMin == Num(0, 1, -1022)
DblBelowMin == Canon(0, BOnes(52), -1074)
\* the 64-bit value written 1e-310 : 0x0.012688b70e62bp-1022
Dbl1em310 ==
    Canon(0, BAdd(BShl(BFromNat(1206411), 24), BFromNat(7398955)), -1074)
One == Num(0, 1, 0)

\* first operands, and results computed by the caller
OperandsA ==
    [w \in Widths |->
        IF w = 32
        THEN {Zero(0), Zero(1), FltMin, FNeg(FltMin), FltBelowMin,
              FNeg(FltBelowMin), FltAboveMin, One, Inf(0), NaN}
        ELSE {Zero(0), Zero(1), DblMin, FNeg(DblMin), DblBelowMin, Dbl1em310,
              FNeg(Dbl1em310), Num(0, 1, -127), Num(0, 3, -150), One, NaN}]

\* second operands
OperandsB == [w \in Widths |-> {Zero(0), Num(1, 3, 0)}]

\* third operands of the fused multiply-add
OperandsC ==
    [w \in Widths |-> IF w = 32 THEN {Num(1, 1, -149)} ELSE {Num(1, 1, -1074)}]

\* a op b as the hardware computes it in the format
ApplyOp(op, a, b, fmt) ==
    CASE op = "add" -> FAdd(a, b, fmt)
      [] op = "sub" -> FSub(a, b, fmt)
      [] op = "mul" -> FMul(a, b, fmt)
      [] op = "div" -> FDiv(a, b, fmt)

\* the results of the arithmetic on the operands above
BinResult ==
    [w \in Widths |-> [op \in BinOps |-> [a \in OperandsA[w] |->
        [b \in OperandsB[w] |-> ApplyOp(op, a, b, Fmt(w))]]]]

\* interflop_fma_binary32 / interflop_fma_binary64 on the operands above
FmaResult ==
    [w \in Widths |-> [a \in OperandsA[w] |-> [b \in OperandsB[w] |->
        [c \in OperandsC[w] |-> FFma(a, b, c, Fmt(w))]]]]

\* (float)a on the 64-bit operands above
CastResult == [a \in OperandsA[64] |-> FCast(a, FloatFmt)]

(***************************************************************************)
(* Host primitives and command lines                                       *)
(***************************************************************************)
AllPrimitives ==
    {"denormalHandler", "malloc", "strcasecmp", "strtol", "argp_parse", "getenv"}

\* the INTERFLOP_CHECK_IMPL lines of _checkdenormal_check_stdlib, in order
RequiredWithoutStrtol == <<"denormalHandler", "malloc", "strcasecmp">>

RequiredPrimitives == <<"denormalHandler", "malloc", "strcasecmp", "strtol">>

\* _checkdenormal_check_stdlib: the primitive of the first failing
\* INTERFLOP_CHECK_IMPL, "" when all are implemented
CheckStdlib ==
    LET missing == {i \in 1..Len(RequiredPrimitives) :
                        RequiredPrimitives[i] \notin host}
    IN  IF missing = {} THEN ""
        ELSE RequiredPrimitives[CHOOSE i \in missing : \A j \in missing : i <= j]

NoPanic == [what |-> "", name |-> ""]

\* enum key_args, and the keys <argp.h> hands to a parser
KEY_FTZ == 0
ARGP_KEY_ARG == 0
ARGP_KEY_END == 16777217
ARGP_ERR_UNKNOWN == 7

\* command-line words after argv[0]: the option of the options[] table with
\* its argument, a word that is not an option, an option that is not in
\* the table
ArgWords == {"--flush-to-zero=0", "input.dat", "--bogus"}

\* the command lines the host passes to cli (argv[0] left out)
CommandLines ==
    {<<>>} \cup {<<w>> : w \in ArgWords} \cup {<<"--flush-to-zero=0", "--bogus">>}

\* the key argp_parse passes to the parser for a word; -1 when argp itself
\* rejects the word (an option that options[] does not list)
ArgpKey(word) ==
    CASE word = "--flush-to-zero=0" -> KEY_FTZ
      [] word = "--bogus" -> -1
      [] OTHER -> ARGP_KEY_ARG

\* parse_opt: <<error code, context>>
ParseOpt(key, c) ==
    IF key = KEY_FTZ THEN <<0, SetCheckdenormalFtz(TRUE, c)>>
    ELSE <<ARGP_ERR_UNKNOWN, c>>

\* argp_parse(&argp, argc, argv, 0, 0, ctx) from word i on: the parser is
\* called for each word in order; a word argp rejects, or a non-option
\* word the parser does not take, ends the process (argp prints the error
\* and exits); ARGP_KEY_END closes a successful parse
RECURSIVE ArgpParse(_, _, _)
ArgpParse(argv, i, c) ==
    IF i > Len(argv) THEN [ok |-> TRUE, ctx |-> ParseOpt(ARGP_KEY_END, c)[2]]
    ELSE IF ArgpKey(argv[i]) = -1 THEN [ok |-> FALSE, ctx |-> c]
    ELSE LET r == ParseOpt(ArgpKey(argv[i]), c)
         IN  IF r[1] # 0 THEN [ok |-> FALSE, ctx |-> r[2]]
             ELSE ArgpParse(argv, i + 1, r[2])

(***************************************************************************)
(* The operation table                                                     *)
(***************************************************************************)
BackendInterfaceWithCmp ==
    [interflop_add_float |-> "interflop_checkdenormal_add_float",
     interflop_sub_float |-> "interflop_checkdenormal_sub_float",
     interflop_mul_float |-> "interflop_checkdenormal_mul_float",
     interflop_div_float |-> "interflop_checkdenormal_div_float",
     interflop_cmp_float |-> "interflop_checkdenormal_cmp_float",
     interflop_add_double |-> "interflop_checkdenormal_add_double",
     interflop_sub_double |-> "interflop_checkdenormal_sub_double",
     interflop_mul_double |-> "interflop_checkdenormal_mul_double",
     interflop_div_double |-> "interflop_checkdenormal_div_double",
     interflop_cmp_double |-> "Null",
     interflop_cast_double_to_float |->
         "interflop_checkdenormal_cast_double_to_float",
     interflop_fma_float |-> "interflop_checkdenormal_fma_float",
     interflop_fma_double |-> "interflop_checkdenormal_fma_double",
     interflop_enter_function |-> "Null",
     interflop_exit_function |-> "Null",
     interflop_user_call |-> "Null",
     interflop_finalize |-> "interflop_checkdenormal_finalize"]

BackendInterface ==
    [interflop_add_float |-> "interflop_checkdenormal_add_float",
     interflop_sub_float |-> "interflop_checkdenormal_sub_float",
     interflop_mul_float |-> "interflop_checkdenormal_mul_float",
     interflop_div_float |-> "interflop_checkdenormal_div_float",
     interflop_cmp_float |-> "Null",
     interflop_add_double |-> "interflop_checkdenormal_add_double",
     interflop_sub_double |-> "interflop_checkdenormal_sub_double",
     interflop_mul_double |-> "interflop_checkdenormal_mul_double",
     interflop_div_double |-> "interflop_checkdenormal_div_double",
     interflop_cmp_double |-> "Null",
     interflop_cast_double_to_float |->
         "interflop_checkdenormal_cast_double_to_float",
     interflop_fma_float |-> "interflop_checkdenormal_fma_float",
     interflop_fma_double |-> "interflop_checkdenormal_fma_double",
     interflop_enter_function |-> "Null",
     interflop_exit_function |-> "Null",
     interflop_user_call |-> "Null",
     interflop_finalize |-> "interflop_checkdenormal_finalize"]

\* the slot of the table an operation of a width is dispatched through
SlotOf(op, w) ==
    CASE op = "add" /\ w = 32 -> "interflop_add_float"
      [] op = "sub" /\ w = 32 -> "interflop_sub_float"
      [] op = "mul" /\ w = 32 -> "interflop_mul_float"
      [] op = "div" /\ w = 32 -> "interflop_div_float"
      [] op = "fma" /\ w = 32 -> "interflop_fma_float"
      [] op = "add" /\ w = 64 -> "interflop_add_double"
      [] op = "sub" /\ w = 64 -> "interflop_sub_double"
      [] op = "mul" /\ w = 64 -> "interflop_mul_double"
      [] op = "div" /\ w = 64 -> "interflop_div_double"
      [] op = "fma" /\ w = 64 -> "interflop_fma_double"
      [] op = "cast" -> "interflop_cast_double_to_float"

(***************************************************************************)
(* State                                                                   *)
(***************************************************************************)
\* the context the host holds: <<>> before pre_init, else one record
HasCtx == ctx # <<>>
Ctx == ctx[1]

\* the last interceptor call: the operation and its width; where the
\* content of *res came from ("computed" by the interceptor, "stored" by
\* the caller before the call, "kept" as the previous call on the slot left
\* it, "flushed" when that call had zeroed it); the content of *res once
\* the arithmetic was done (pre); whether flushToZeroAndCheck ran and its
\* condition held; the flag of the context at the call; the content of *res
\* at each invocation of the handler
NoCall ==
    [op |-> "none", width |-> 0, entry |-> "none", pre |-> Zero(0),
     applied |-> FALSE, fired |-> FALSE, ftz |-> FALSE, saw |-> <<>>]

Init ==
    /\ doop \in BOOLEAN
    /\ host \in SUBSET AllPrimitives
    /\ phase = "Uninitialized"
    /\ ctx = <<>>
    /\ table = <<>>
    /\ res = [width |-> 64, val |-> Zero(0)]
    /\ recording \in {"calls", "configuration"}
    /\ last = NoCall
    /\ cfgHist = <<>>
    /\ panicMsg = NoPanic

(***************************************************************************)
(* Lifecycle and configuration entry points                                *)
(***************************************************************************)
\* The auxiliary variables are no state of the backend: they keep, for the
\* properties, either the last interceptor call (last) or the configuration
\* calls in program order (cfgHist, at most MaxCfg of them).
CanRecordCfg == recording = "configuration" => Len(cfgHist) < MaxCfg

RecordCfg(call) ==
    cfgHist' = IF recording = "configuration" THEN Append(cfgHist, call)
               ELSE cfgHist

\* interflop_checkdenormal_pre_init.  interflop_panic ends the session.  A
\* failed interflop_malloc makes _checkdenormal_init_context write through
\* a null pointer, which ends the process.
PreInit ==
    /\ phase = "Uninitialized"
    /\ IF CheckStdlib # ""
       THEN /\ phase' = "Panicked"
            /\ panicMsg' = [what |-> "not implemented", name |-> CheckStdlib]
            /\ ctx' = ctx
       ELSE /\ panicMsg' = panicMsg
            /\ \E allocated \in BOOLEAN :
                 IF allocated
                 THEN /\ ctx' = << [flushtozero |-> FALSE] >>
                      /\ phase' = "Configured"
                 ELSE /\ ctx' = ctx
                      /\ phase' = "Crashed"
    /\ UNCHANGED <<doop, host, table, res, recording, last, cfgHist>>

\* interflop_checkdenormal_configure
Configure(conf) ==
    /\ phase \in {"Configured", "Active"}
    /\ CanRecordCfg
    /\ ctx' = << [Ctx EXCEPT !.flushtozero = conf.flushtozero] >>
    /\ RecordCfg([kind |-> "configure", flushtozero |-> conf.flushtozero,
                  argv |-> <<>>])
    /\ UNCHANGED <<doop, host, phase, table, res, recording, last, panicMsg>>

\* interflop_checkdenormal_cli
Cli(argv) ==
    /\ phase \in {"Configured", "Active"}
    /\ CanRecordCfg
    /\ RecordCfg([kind |-> "cli", flushtozero |-> FALSE, argv |-> argv])
    /\ IF "argp_parse" \in host
       THEN LET r == ArgpParse(argv, 1, Ctx)
            IN  /\ ctx' = <<r.ctx>>
                /\ phase' = IF r.ok THEN phase ELSE "Exited"
                /\ panicMsg' = panicMsg
       ELSE /\ ctx' = ctx
            /\ phase' = "Panicked"
            /\ panicMsg' = [what |-> "not implemented", name |-> "argp_parse"]
    /\ UNCHANGED <<doop, host, table, res, recording, last>>

\* interflop_checkdenormal_init.  print_information_header calls
\* interflop_getenv unchecked: a call through a null pointer ends the
\* process.  What it writes through the logger is output of the session
\* and no state of the backend.
InitBackend ==
    /\ phase = "Configured"
    /\ IF "getenv" \in host
       THEN /\ table' = <<BackendInterface>>
            /\ phase' = "Active"
       ELSE /\ table' = table
            /\ phase' = "Crashed"
    /\ UNCHANGED <<doop, host, ctx, res, recording, last, cfgHist, panicMsg>>

\* interflop_checkdenormal_finalize
Finalize ==
    /\ phase = "Active"
    /\ table[1].interflop_finalize # "Null"
    /\ phase' = "Finalized"
    /\ UNCHANGED <<doop, host, ctx, table, res, recording, last, cfgHist,
                   panicMsg>>

(***************************************************************************)
(* Operation interceptors                                                  *)
(***************************************************************************)
\* what *res can hold when an interceptor that does no arithmetic is
\* called: a result the caller has just stored, or what the previous call
\* on the slot left there
SlotContents(w) ==
    {[entry |-> "stored", val |-> v] : v \in OperandsA[w]}
    \cup (IF last.op # "none" /\ res.width = w
          THEN {[entry |-> IF last.fired /\ last.ftz THEN "flushed" ELSE "kept",
                 val |-> res.val]}
          ELSE {})

\* the part common to the interceptors: *res holds pre once the arithmetic
\* is done, then flushToZeroAndCheck(res, ctx) runs if the build calls it
Intercept(op, w, entry, pre, applies) ==
    LET out == IF applies THEN FlushToZeroAndCheck(pre, Ctx, Fmt(w))
               ELSE [res |-> pre, fired |-> FALSE, saw |-> <<>>]
    IN  /\ res' = [width |-> w, val |-> out.res]
        /\ last' = IF recording = "calls"
                   THEN [op |-> op, width |-> w, entry |-> entry, pre |-> pre,
                         applied |-> applies, fired |-> out.fired,
                         ftz |-> Ctx.flushtozero, saw |-> out.saw]
                   ELSE last
        /\ UNCHANGED <<doop, host, phase, ctx, table, recording, cfgHist,
                       panicMsg>>

\* interflop_checkdenormal_{add,sub,mul,div}_{float,double}: APPLYOP
BinaryOp(op, w) ==
    /\ phase = "Active"
    /\ table[1][SlotOf(op, w)] # "Null"
    /\ IF doop
       THEN \E a \in OperandsA[w], b \in OperandsB[w] :
              Intercept(op, w, "computed", BinResult[w][op][a][b], TRUE)
       ELSE \E slot \in SlotContents(w) :
              Intercept(op, w, slot.entry, slot.val, TRUE)

\* interflop_checkdenormal_fma_float / interflop_checkdenormal_fma_double:
\* the whole body is inside #ifdef IFCD_DOOP
Fma(w) ==
    /\ phase = "Active"
    /\ table[1][SlotOf("fma", w)] # "Null"
    /\ IF doop
       THEN \E a \in OperandsA[w], b \in OperandsB[w], c \in OperandsC[w] :
              Intercept("fma", w, "computed", FmaResult[w][a][b][c], TRUE)
       ELSE \E slot \in SlotContents(w) :
              Intercept("fma", w, slot.entry, slot.val, FALSE)

\* interflop_checkdenormal_cast_double_to_float
CastDoubleToFloat ==
    /\ phase = "Active"
    /\ table[1][SlotOf("cast", 32)] # "Null"
    /\ IF doop
       THEN \E a \in OperandsA[64] :
              Intercept("cast", 32, "computed", CastResult[a], TRUE)
       ELSE \E slot \in SlotContents(32) :
              Intercept("cast", 32, slot.entry, slot.val, TRUE)

(***************************************************************************)
(* The session                                                             *)
(***************************************************************************)
Next ==
    \/ PreInit
    \/ \E conf \in [flushtozero : BOOLEAN] : Configure(conf)
    \/ \E argv \in CommandLines : Cli(argv)
    \/ InitBackend
    \/ \E op \in BinOps, w \in Widths : BinaryOp(op, w)
    \/ \E w \in Widths : Fma(w)
    \/ CastDoubleToFloat
    \/ Finalize

Spec == Init /\ [][Next]_vars

(***************************************************************************)
(* Properties                                                              *)
(***************************************************************************)
\* a subnormal value of the format: finite, not zero, and of magnitude
\* below 2^emin (its leading bit lies below the exponent of the smallest
\* normal value)
IsSubnormal(v, fmt) ==
    v.k = "num" /\ v.m # <<>> /\ Len(v.m) + v.e - 1 < fmt.emin

SmallestNormal(w) == IF w = 32 THEN FltMin ELSE DblMin
StepBelowNormal(w) == IF w = 32 THEN FltBelowMin ELSE DblBelowMin

Live == phase \in {"Configured", "Active", "Finalized"}

\* C1: whenever flushToZeroAndCheck has run on a value of a width, its
\* condition held iff the value was subnormal for that width: never on a
\* zero of either sign, never on the smallest normal value or its negation,
\* never on NaN or a larger magnitude, always one step below the boundary.
C1_DetectorFiresIffSubnormal ==
    last.applied =>
        /\ last.fired <=> IsSubnormal(last.pre, Fmt(last.width))
        /\ last.pre \in {Zero(0), Zero(1), SmallestNormal(last.width),
                         FNeg(SmallestNormal(last.width)), NaN} => ~last.fired
        /\ last.pre = StepBelowNormal(last.width) => last.fired

\* C1 witness: the detector has fired on the 64-bit value one step below
\* DBL_MIN.
C1_Witness ==
    /\ last.applied
    /\ last.width = 64
    /\ last.pre = DblBelowMin
    /\ last.fired

\* C2: after flushToZeroAndCheck has run on a slot, the slot holds +0 if the
\* value was subnormal and flushtozero was set, and the value it held
\* otherwise; in particular it is untouched when flushtozero is not set and
\* when the value is not subnormal.
C2_SlotAfterFlush ==
    last.applied =>
        /\ res.width = last.width
        /\ res.val = IF IsSubnormal(last.pre, Fmt(last.width)) /\ last.ftz
                     THEN Zero(0) ELSE last.pre
        /\ ~last.ftz => res.val = last.pre
        /\ ~IsSubnormal(last.pre, Fmt(last.width)) => res.val = last.pre

\* C2 witness: add_double computed 1e-310 + 0 = 1e-310 with flushtozero set
\* and stored 0.0.
C2_Witness ==
    /\ doop
    /\ last.op = "add"
    /\ last.width = 64
    /\ last.entry = "computed"
    /\ last.pre = Dbl1em310
    /\ last.ftz
    /\ res.val = Zero(0)

\* C3: every interceptor call on whose result the detector fires invokes
\* the handler exactly once, while the slot still holds that result (before
\* any zeroing), whether flushtozero is set or not; a call on whose result
\* the detector does not fire does not invoke it, so the invocations of a
\* sequence of calls are as many as the calls whose result was flagged.
C3_HookOncePerFlaggedResult ==
    last.op # "none" =>
        /\ last.saw = IF last.fired THEN <<last.pre>> ELSE <<>>
        /\ (last.applied /\ IsSubnormal(last.pre, Fmt(last.width))) =>
              last.saw = <<last.pre>>

\* C3 witness: with flushtozero set, the handler ran once on a subnormal
\* result that the call then replaced by zero.
C3_Witness ==
    /\ last.fired
    /\ last.ftz
    /\ last.saw = <<last.pre>>
    /\ IsSubnormal(last.pre, Fmt(last.width))
    /\ res.val = Zero(0)

\* C4 (as claimed): in the build without IFCD_DOOP the fma interceptors,
\* given a slot holding a subnormal result, notify the handler and zero the
\* slot when flushtozero is set, and otherwise leave the slot as it was.
C4_FmaObserveAppliesFlush ==
    (~doop /\ last.op = "fma") =>
        /\ IsSubnormal(last.pre, Fmt(last.width)) =>
              /\ last.saw = <<last.pre>>
              /\ res.val = IF last.ftz THEN Zero(0) ELSE last.pre
        /\ ~IsSubnormal(last.pre, Fmt(last.width)) => res.val = last.pre

\* the value a configuration call writes to flushtozero (none: <<>>): the
\* record's field for configure; true for a command line from which the
\* parser is handed the key of the option
WriteOf(call) ==
    IF call.kind = "configure" THEN <<call.flushtozero>>
    ELSE IF \E i \in 1..Len(call.argv) :
                call.argv[i] \in {"--flush-to-zero=0", "input.dat"}
         THEN <<TRUE>>
         ELSE <<>>

\* the last value written by a sequence of configuration calls on a fresh
\* context (false: the default of pre_init)
RECURSIVE LastWrite(_)
LastWrite(h) ==
    IF h = <<>> THEN FALSE
    ELSE IF WriteOf(h[Len(h)]) # <<>> THEN WriteOf(h[Len(h)])[1]
    ELSE LastWrite(SubSeq(h, 1, Len(h) - 1))

\* C5: after any sequence of configure and cli calls on the context, its
\* flushtozero is the value of the last write in program order.
C5_LastWriteWins ==
    (recording = "configuration" /\ Live /\ HasCtx) =>
        Ctx.flushtozero = LastWrite(cfgHist)

\* C5 witness: cli set the flag, then configure applied a record with
\* flushtozero false, and the context reads false.
C5_Witness ==
    /\ recording = "configuration"
    /\ Live
    /\ Len(cfgHist) = 2
    /\ cfgHist[1].kind = "cli"
    /\ cfgHist[1].argv = <<"--flush-to-zero=0">>
    /\ cfgHist[2].kind = "configure"
    /\ ~cfgHist[2].flushtozero
    /\ ~Ctx.flushtozero

\* C6 (as claimed): pre_init leaves flushtozero false; it becomes true only
\* by configure with a record whose flushtozero is true or by cli with the
\* flush-to-zero flag on the command line; cli never takes it from true to
\* false.
C6_FalseUntilExplicitlyEnabled ==
    /\ [](recording = "configuration" /\ HasCtx /\ cfgHist = <<>>
            => ~Ctx.flushtozero)
    /\ [][(recording = "configuration" /\ HasCtx /\ Live') =>
            /\ (~Ctx.flushtozero /\ ctx'[1].flushtozero) =>
                 /\ Len(cfgHist') = Len(cfgHist) + 1
                 /\ LET call == cfgHist'[Len(cfgHist')]
                    IN  \/ call.kind = "configure" /\ call.flushtozero
                        \/ /\ call.kind = "cli"
                           /\ \E i \in 1..Len(call.argv) :
                                call.argv[i] = "--flush-to-zero=0"
            /\ (Ctx.flushtozero /\ ~ctx'[1].flushtozero) =>
                 /\ Len(cfgHist') = Len(cfgHist) + 1
                 /\ cfgHist'[Len(cfgHist')].kind = "configure"]_vars

\* C7: every table init returns has the comparison slots of both widths
\* and the enter-function, exit-function and user-call slots null, and
\* add, sub, mul, div, fma of both widths, the cast and finalize bound to
\* the functions of this backend.
C7_TableSlots ==
    table # <<>> =>
        LET t == table[1]
        IN  /\ t.interflop_cmp_float = "Null"
            /\ t.interflop_cmp_double = "Null"
            /\ t.interflop_enter_function = "Null"
            /\ t.interflop_exit_function = "Null"
            /\ t.interflop_user_call = "Null"
            /\ t.interflop_add_float = "interflop_checkdenormal_add_float"
            /\ t.interflop_sub_float = "interflop_checkdenormal_sub_float"
            /\ t.interflop_mul_float = "interflop_checkdenormal_mul_float"
            /\ t.interflop_div_float = "interflop_checkdenormal_div_float"
            /\ t.interflop_fma_float = "interflop_checkdenormal_fma_float"
            /\ t.interflop_add_double = "interflop_checkdenormal_add_double"
            /\ t.interflop_sub_double = "interflop_checkdenormal_sub_double"
            /\ t.interflop_mul_double = "interflop_checkdenormal_mul_double"
            /\ t.interflop_div_double = "interflop_checkdenormal_div_double"
            /\ t.interflop_fma_double = "interflop_checkdenormal_fma_double"
            /\ t.interflop_cast_double_to_float =
                   "interflop_checkdenormal_cast_double_to_float"
            /\ t.interflop_finalize = "interflop_checkdenormal_finalize"

\* C7 witness: init has returned the table for a context whose flushtozero
\* had been set before.
C7_Witness ==
    /\ phase = "Active"
    /\ table # <<>>
    /\ Ctx.flushtozero

MissingRequired ==
    {"denormalHandler", "malloc", "strcasecmp", "strtol"} \ host

\* C8: when a required primitive is missing, pre_init panics naming a
\* missing primitive and no context is ever allocated; a panic never
\* changes the context; cli without argp_parse panics and leaves the
\* context as it was.
C8_FatalLeavesNoPartialSession ==
    /\ []((MissingRequired # {} /\ phase # "Uninitialized") =>
            /\ phase = "Panicked"
            /\ ctx = <<>>
            /\ panicMsg.what = "not implemented"
            /\ panicMsg.name \in MissingRequired)
    /\ [][/\ (phase' = "Panicked" /\ phase # "Panicked") => ctx' = ctx
          /\ (/\ recording = "configuration"
              /\ Len(cfgHist') = Len(cfgHist) + 1
              /\ cfgHist'[Len(cfgHist')].kind = "cli"
              /\ "argp_parse" \notin host) =>
                 /\ phase' = "Panicked"
                 /\ panicMsg'.name = "argp_parse"
                 /\ ctx' = ctx]_vars

\* C8 witness: pre_init has panicked on the last primitive it checks, with
\* no context allocated.
C8_Witness ==
    /\ phase = "Panicked"
    /\ panicMsg.name = "strtol"
    /\ MissingRequired = {"strtol"}
    /\ ctx = <<>>

\* C9: when flushToZeroAndCheck runs with flushtozero set on a slot that the
\* previous call, also with flushtozero set, had flushed, the slot holds +0
\* before and after, the condition does not hold and the handler is not
\* invoked.
C9_SecondFlushIsNoOp ==
    (last.applied /\ last.entry = "flushed" /\ last.ftz) =>
        /\ last.pre = Zero(0)
        /\ res.val = Zero(0)
        /\ ~last.fired
        /\ last.saw = <<>>

\* C9 witness: a second application on a flushed slot has happened.
C9_Witness ==
    /\ last.applied
    /\ last.entry = "flushed"
    /\ last.ftz
    /\ res.val = Zero(0)

\* C10 (as claimed): every interceptor call zeroes a subnormal result iff
\* flushtozero is set in the context at the time of the call, and no
\* interceptor, init or finalize call changes the context.
C10_CallsApplyCurrentFlag ==
    /\ []((last.op # "none" /\ IsSubnormal(last.pre, Fmt(last.width))) =>
            (res.val = Zero(0) <=> last.ftz))
    /\ [][(res' # res \/ last' # last \/ table' # table
           \/ phase' = "Finalized") => ctx' = ctx]_vars

====
